---- MODULE Spec2Model ----
(***************************************************************************)
(* Model of graph_visualizer/main.py: the depth-bounded iterative          *)
(* traversal build_graph over get_direct_deps, the reverse index           *)
(* build_reverse_graph and the diagram serializer generate_mermaid.        *)
(***************************************************************************)
EXTENDS Integers, Sequences, FiniteSets, TLC

\* ------------------------------------------------------------------ bounds
\* Largest number of dependency entries (edges) an input mapping holds in all.
MaxEdges == 4
\* Largest max_depth a configuration holds.
MaxBound == 2

\* Package names of the input registries (test_repo.json).
Packages == {"A", "B", "C"}

\* The static table of get_direct_deps (test_mode = False).
fallback ==
    [p \in {"requests", "urllib3", "chardet", "six"} |->
        CASE p = "requests" -> <<"urllib3", "chardet">>
          [] p = "urllib3"  -> <<"six">>
          [] p = "chardet"  -> <<>>
          [] p = "six"      -> <<>>]

Names == Packages \cup DOMAIN fallback

\* ------------------------------------------------------------------ state
VARIABLES
    config,     \* the validated settings record: test_mode, max_depth
    test_repo,  \* content of test_repo.json: package -> dependency list
    start,      \* build_graph's start argument
    visited,    \* build_graph: set of expanded packages
    stack,      \* build_graph: list of <<node, depth>>, top at the end
    graph,      \* build_graph: dict as its list of <<key, deps>> in insertion order
    pc,         \* "loop" while the while-loop runs, "done" after return
    expanded,   \* history: <<node, depth>> of every get_direct_deps call, in order
    popped,     \* history: every <<node, depth>> taken by stack.pop()
    full,       \* build_reverse_graph: items() of the loaded test_repo.json, in order
    rev,        \* build_reverse_graph: dict as its list of <<key, dependents>>
    ri,         \* build_reverse_graph: position of the outer loop in full
    rj,         \* build_reverse_graph: position of the inner loop in deps
    rpc,        \* build_reverse_graph: "start", "loop", "done"
    mgraph,     \* generate_mermaid: items() of its argument, in order
    lines,      \* generate_mermaid: the list of lines
    seen,       \* generate_mermaid: the set of edge strings
    mi,         \* generate_mermaid: position of the outer loop in mgraph
    mj,         \* generate_mermaid: position of the inner loop in deps
    text,       \* generate_mermaid: the returned string
    mpc         \* generate_mermaid: "loop", "done"

buildVars == <<start, test_repo, visited, stack, graph, pc, expanded, popped>>

revVars == <<full, rev, ri, rj, rpc>>

mermaidVars == <<mgraph, lines, seen, mi, mj, text, mpc>>

vars == <<config, buildVars, revVars, mermaidVars>>

\* ------------------------------------------------------------ pure helpers
SeqsUpTo(S, n) == UNION {[1..k -> S] : k \in 0..n}

\* the lists of at most n keys, each key once
KeyLists(S, n) ==
    {o \in SeqsUpTo(S, n) : \A i, j \in 1..Len(o) : o[i] = o[j] => i = j}

\* the dependency list of p in a list e of <<package, dependency>> entries
Targets(e, p) ==
    LET sel == SelectSeq(e, LAMBDA x : x[1] = p)
    IN  [i \in 1..Len(sel) |-> sel[i][2]]

\* the dicts (as item lists) with keys o that hold the entries e
DictOf(o, e) == [i \in 1..Len(o) |-> <<o[i], Targets(e, o[i])>>]

Reversed(s) == [i \in 1..Len(s) |-> s[Len(s) + 1 - i]]

\* dict views of a list of <<key, value>> entries
Keys(d) == {d[i][1] : i \in 1..Len(d)}

KeyOrder(d) == [i \in 1..Len(d) |-> d[i][1]]

Get(d, k, default) ==
    IF k \in Keys(d)
    THEN d[CHOOSE i \in 1..Len(d) : d[i][1] = k][2]
    ELSE default

\* d[k] = v: a new key is appended, an existing key keeps its position
SetItem(d, k, v) ==
    IF k \in Keys(d)
    THEN [i \in 1..Len(d) |-> IF d[i][1] = k THEN <<k, v>> ELSE d[i]]
    ELSE Append(d, <<k, v>>)

\* ---------------------------------------------------------- get_direct_deps
get_direct_deps(pkg, cfg) ==
    IF cfg.test_mode
    THEN IF pkg \in DOMAIN test_repo THEN test_repo[pkg] ELSE <<>>
    ELSE IF pkg \in DOMAIN fallback THEN fallback[pkg] ELSE <<>>

\* -------------------------------------------------------------- build_graph
\* mutants of the skip test
SkippedNoVisited(node, depth, vis, cfg) == depth > cfg.max_depth

SkippedNoDepth(node, depth, vis, cfg) == node \in vis

SkippedOffByOne(node, depth, vis, cfg) == node \in vis \/ depth >= cfg.max_depth

\* line 62: node in visited or depth > config["max_depth"]
Skipped(node, depth, vis, cfg) == node \in vis \/ depth > cfg.max_depth

\* mutants of the push loop
PushDepsForward(stk, deps, depth, vis) ==
    stk \o SelectSeq([i \in 1..Len(deps) |-> <<deps[i], depth + 1>>],
                     LAMBDA e : e[1] \notin vis)

PushDepsSameDepth(stk, deps, depth, vis) ==
    stk \o SelectSeq([i \in 1..Len(deps) |-> <<Reversed(deps)[i], depth>>],
                     LAMBDA e : e[1] \notin vis)

\* lines 67-69: for dep in reversed(deps): if dep not in visited: push (dep, depth+1)
PushDeps(stk, deps, depth, vis) ==
    stk \o SelectSeq([i \in 1..Len(deps) |-> <<Reversed(deps)[i], depth + 1>>],
                     LAMBDA e : e[1] \notin vis)

\* lines 56-58: the locals before the loop
BuildStart(s) == [visited |-> {}, stack |-> <<<<s, 0>>>>, graph |-> <<>>]

\* mutant: a discarded entry is read (stack[-1]) but not taken off the stack
LoopBodyPeek(st, cfg) ==
    LET top   == st.stack[Len(st.stack)]
        node  == top[1]
        depth == top[2]
        rest  == SubSeq(st.stack, 1, Len(st.stack) - 1)
    IN  IF Skipped(node, depth, st.visited, cfg)
        THEN st
        ELSE LET vis  == st.visited \cup {node}
                 deps == get_direct_deps(node, cfg)
             IN  [visited |-> vis,
                  stack   |-> PushDeps(rest, deps, depth, vis),
                  graph   |-> SetItem(st.graph, node, deps)]

\* lines 61-69: one iteration of the while loop, on the locals
LoopBody(st, cfg) ==
    LET top   == st.stack[Len(st.stack)]
        node  == top[1]
        depth == top[2]
        rest  == SubSeq(st.stack, 1, Len(st.stack) - 1)
    IN  IF Skipped(node, depth, st.visited, cfg)
        THEN [st EXCEPT !.stack = rest]
        ELSE LET vis  == st.visited \cup {node}
                 deps == get_direct_deps(node, cfg)
             IN  [visited |-> vis,
                  stack   |-> PushDeps(rest, deps, depth, vis),
                  graph   |-> SetItem(st.graph, node, deps)]

\* lines 55-70 as a function: the loop run to the empty stack
RECURSIVE RunLoop(_, _)
RunLoop(st, cfg) ==
    IF st.stack = <<>> THEN st.graph ELSE RunLoop(LoopBody(st, cfg), cfg)

build_graph(s, cfg) == RunLoop(BuildStart(s), cfg)

Locals == [visited |-> visited, stack |-> stack, graph |-> graph]

Top == stack[Len(stack)]

Iterate ==
    LET st == LoopBody(Locals, config)
    IN  /\ visited' = st.visited
        /\ stack' = st.stack
        /\ graph' = st.graph
        /\ popped' = popped \cup {Top}

\* line 62-63: the popped entry is discarded
Skip ==
    /\ pc = "loop"
    /\ stack # <<>>
    /\ Skipped(Top[1], Top[2], visited, config)
    /\ Iterate
    /\ UNCHANGED <<config, test_repo, start, pc, expanded, revVars, mermaidVars>>

\* lines 64-69: the popped entry is expanded
Expand ==
    /\ pc = "loop"
    /\ stack # <<>>
    /\ ~Skipped(Top[1], Top[2], visited, config)
    /\ Iterate
    /\ expanded' = Append(expanded, Top)
    /\ UNCHANGED <<config, test_repo, start, pc, revVars, mermaidVars>>

\* line 60, 70: the stack is empty, the mapping is returned
Return ==
    /\ pc = "loop"
    /\ stack = <<>>
    /\ pc' = "done"
    /\ UNCHANGED <<config, test_repo, start, visited, stack, graph, expanded, popped,
                   revVars, mermaidVars>>

\* a registry: dependency lists for some of the packages, MaxEdges entries at most
ChooseRegistry ==
    \E D \in SUBSET Packages :
        \E e \in SeqsUpTo(D \X Packages, MaxEdges) :
            test_repo = [p \in D |-> Targets(e, p)]

\* Package names are opaque and the registries are closed under renaming, so
\* one start name stands for every package; the registries without an entry
\* for it make it the unknown package.
StartPackages == {"A"}

InitLocals ==
    /\ visited = BuildStart(start).visited
    /\ stack = BuildStart(start).stack
    /\ graph = BuildStart(start).graph
    /\ pc = "loop"
    /\ expanded = <<>>
    /\ popped = {}

\* the other functions are not running
RevIdle ==
    /\ full = <<>>
    /\ rev = <<>>
    /\ ri = 1
    /\ rj = 1
    /\ rpc = "idle"

MermaidIdle ==
    /\ mgraph = <<>>
    /\ lines = <<>>
    /\ seen = {}
    /\ mi = 1
    /\ mj = 1
    /\ text = <<>>
    /\ mpc = "idle"

BuildIdle ==
    /\ test_repo = <<>>
    /\ start = "A"
    /\ visited = {}
    /\ stack = <<>>
    /\ graph = <<>>
    /\ pc = "idle"
    /\ expanded = <<>>
    /\ popped = {}

Init ==
    /\ config \in [test_mode : BOOLEAN, max_depth : 0..MaxBound]
    /\ IF config.test_mode
       THEN ChooseRegistry /\ start \in StartPackages
       ELSE test_repo = <<>> /\ start \in StartPackages \cup DOMAIN fallback
    /\ InitLocals
    /\ RevIdle
    /\ MermaidIdle

Next == Skip \/ Expand \/ Return

Spec == Init /\ [][Next]_vars

\* the loop is sequential code: it always takes its next step
FairSpec == Spec /\ WF_vars(Next)

\* ------------------------------------------------------ build_reverse_graph
\* mutant: the entry is overwritten instead of appended to
SetDefaultAppendOverwrite(d, k, v) == SetItem(d, k, <<v>>)

\* line 87: rev.setdefault(dep, []).append(pkg)
SetDefaultAppend(d, k, v) ==
    IF k \in Keys(d)
    THEN [i \in 1..Len(d) |-> IF d[i][1] = k THEN <<k, Append(d[i][2], v)>> ELSE d[i]]
    ELSE Append(d, <<k, <<v>>>>)

\* lines 74-75: without the registry the reverse mapping is empty
RevNoRegistry ==
    /\ rpc = "start"
    /\ ~config.test_mode
    /\ rev' = <<>>
    /\ rpc' = "done"
    /\ UNCHANGED <<config, buildVars, full, ri, rj, mermaidVars>>

\* lines 77-84: the registry is loaded, rev = {}
RevOpen ==
    /\ rpc = "start"
    /\ config.test_mode
    /\ rev' = <<>>
    /\ ri' = 1
    /\ rj' = 1
    /\ rpc' = "loop"
    /\ UNCHANGED <<config, buildVars, full, mermaidVars>>

\* lines 86-87: one iteration of the inner loop
RevEdge ==
    /\ rpc = "loop"
    /\ ri <= Len(full)
    /\ rj <= Len(full[ri][2])
    /\ rev' = SetDefaultAppend(rev, full[ri][2][rj], full[ri][1])
    /\ rj' = rj + 1
    /\ UNCHANGED <<config, buildVars, full, ri, rpc, mermaidVars>>

\* line 85: the inner loop is exhausted, the outer loop takes the next item
RevNextPkg ==
    /\ rpc = "loop"
    /\ ri <= Len(full)
    /\ rj > Len(full[ri][2])
    /\ ri' = ri + 1
    /\ rj' = 1
    /\ UNCHANGED <<config, buildVars, full, rev, rpc, mermaidVars>>

\* line 88: return rev
RevReturn ==
    /\ rpc = "loop"
    /\ ri > Len(full)
    /\ rpc' = "done"
    /\ UNCHANGED <<config, buildVars, full, rev, ri, rj, mermaidVars>>

\* d is a mapping over names S: keys in any order, MaxEdges entries at most
IsMappingOver(d, S) ==
    \E o \in KeyLists(S, Cardinality(S)) :
        \E e \in SeqsUpTo({o[i] : i \in 1..Len(o)} \X S, MaxEdges) :
            d = DictOf(o, e)

RevInit ==
    /\ config \in [test_mode : BOOLEAN, max_depth : {0}]
    /\ IF config.test_mode THEN IsMappingOver(full, Packages) ELSE full = <<>>
    /\ rev = <<>>
    /\ ri = 1
    /\ rj = 1
    /\ rpc = "start"
    /\ BuildIdle
    /\ MermaidIdle

RevNext == RevNoRegistry \/ RevOpen \/ RevEdge \/ RevNextPkg \/ RevReturn

RevSpec == RevInit /\ [][RevNext]_vars

\* --------------------------------------------------------- generate_mermaid
\* A string is the sequence of its pieces; the pieces are a prefix-free code,
\* so two strings are equal exactly when their sequences are.
Arrow == " --> "

Indent == "    "

Header == <<"graph TD">>

Newline == "\n"

\* line 100: f"{pkg} --> {dep}"
EdgeText(pkg, dep) == pkg \o <<Arrow>> \o dep

\* line 102: f"    {edge}"
LineText(edge) == <<Indent>> \o edge

\* line 104: "\n".join(lines)
RECURSIVE Join(_)
Join(ls) ==
    IF ls = <<>> THEN <<>>
    ELSE IF Len(ls) = 1 THEN ls[1]
    ELSE ls[1] \o <<Newline>> \o Join(Tail(ls))

\* lines 100-103: one iteration of the inner loop
MermaidEdge ==
    /\ mpc = "loop"
    /\ mi <= Len(mgraph)
    /\ mj <= Len(mgraph[mi][2])
    /\ LET edge == EdgeText(mgraph[mi][1], mgraph[mi][2][mj])
       IN  IF edge \notin seen
           THEN /\ lines' = Append(lines, LineText(edge))
                /\ seen' = seen \cup {edge}
           ELSE UNCHANGED <<lines, seen>>
    /\ mj' = mj + 1
    /\ UNCHANGED <<config, buildVars, revVars, mgraph, mi, text, mpc>>

\* line 98: the inner loop is exhausted, the outer loop takes the next item
MermaidNextPkg ==
    /\ mpc = "loop"
    /\ mi <= Len(mgraph)
    /\ mj > Len(mgraph[mi][2])
    /\ mi' = mi + 1
    /\ mj' = 1
    /\ UNCHANGED <<config, buildVars, revVars, mgraph, lines, seen, text, mpc>>

\* line 104: return "\n".join(lines)
MermaidReturn ==
    /\ mpc = "loop"
    /\ mi > Len(mgraph)
    /\ text' = Join(lines)
    /\ mpc' = "done"
    /\ UNCHANGED <<config, buildVars, revVars, mgraph, lines, seen, mi, mj>>

\* package names: arbitrary strings, here two plain ones and one that holds " --> "
MermaidNames == {<<"a">>, <<"b">>, <<"a", Arrow, "a">>}

MermaidInit ==
    /\ config \in [test_mode : {TRUE}, max_depth : {0}]
    /\ IsMappingOver(mgraph, MermaidNames)
    /\ lines = <<Header>>
    /\ seen = {}
    /\ mi = 1
    /\ mj = 1
    /\ text = <<>>
    /\ mpc = "loop"
    /\ BuildIdle
    /\ RevIdle

MermaidNext == MermaidEdge \/ MermaidNextPkg \/ MermaidReturn

MermaidSpec == MermaidInit /\ [][MermaidNext]_vars

\* ---------------------------------------- build_graph on acyclic registries
WidePackages == {"A", "B", "C", "D", "E"}

\* Largest max_depth of the configurations over the acyclic registries.
WideBound == 3

\* duplicate-free dependency lists of at most two names
ShortLists(S) ==
    {<<>>} \cup {<<x>> : x \in S} \cup {s \in S \X S : s[1] # s[2]}

\* registries in which a package depends only on alphabetically later packages
AcyclicRegistries ==
    {("A" :> a) @@ ("B" :> b) @@ ("C" :> c) @@ ("D" :> d) :
        a \in ShortLists({"B", "C", "D", "E"}),
        b \in ShortLists({"C", "D", "E"}),
        c \in ShortLists({"D", "E"}),
        d \in ShortLists({"E"})}

WideInit ==
    /\ config \in [test_mode : {TRUE}, max_depth : 0..WideBound]
    /\ test_repo \in AcyclicRegistries
    /\ start = "A"
    /\ InitLocals
    /\ RevIdle
    /\ MermaidIdle

WideSpec == WideInit /\ [][Next]_vars

\* ------------------------------------------------------------------ claims
Range(s) == {s[i] : i \in 1..Len(s)}

Count(x, s) == Cardinality({i \in 1..Len(s) : s[i] = x})

Max(a, b) == IF a >= b THEN a ELSE b

AllNames == Names \cup WidePackages

\* what the configured source holds for a package
SourceEntries == IF config.test_mode THEN test_repo ELSE fallback

SourceDeps(p) == IF p \in DOMAIN SourceEntries THEN SourceEntries[p] ELSE <<>>

\* a path of exactly n dependency edges from a to b
RECURSIVE PathOfLen(_, _, _)
PathOfLen(a, b, n) ==
    IF n = 0 THEN a = b
    ELSE \E c \in Range(SourceDeps(a)) : PathOfLen(c, b, n - 1)

PathWithin(a, b, n) == \E k \in 0..n : PathOfLen(a, b, k)

Done == pc = "done"

\* C1: for every finite source (cycles and self-references included), every
\* start package and every bound >= 0, build_graph terminates: the stack
\* becomes empty and the mapping is returned.
Terminates == <>(Done /\ stack = <<>>)

\* a run over a cycle through the start package has returned
TerminatesWitness ==
    /\ Done
    /\ \E q \in Range(SourceDeps(start)) : start \in Range(SourceDeps(q))
    /\ config.max_depth >= 2

\* C2: every package is expanded at most once: the source is queried exactly
\* once for each key, a recorded key is never assigned again (the i-th key is
\* the i-th query), and a self-edge is recorded without a second expansion.
ExpandedOnce ==
    /\ \A p \in AllNames : Count(p, [i \in 1..Len(expanded) |-> expanded[i][1]]) <= 1
    /\ KeyOrder(graph) = [i \in 1..Len(expanded) |-> expanded[i][1]]
    /\ \A i \in 1..Len(graph) : graph[i][2] = SourceDeps(graph[i][1])

\* a package listed by two parents and by itself was popped again after its expansion
ExpandedOnceWitness ==
    /\ Done
    /\ \E p, q1, q2 \in Keys(graph) :
          /\ q1 # q2 /\ q1 # p /\ q2 # p
          /\ p \in Range(Get(graph, q1, <<>>))
          /\ p \in Range(Get(graph, q2, <<>>))
          /\ p \in Range(Get(graph, p, <<>>))
          /\ Cardinality({e \in popped : e[1] = p}) >= 2

\* C3: a package is a key iff it was expanded; every expanded package was
\* popped at a depth <= bound and is reachable from start by a path of that
\* many edges; a package popped only at depths > bound is not a key.
DepthBounded ==
    /\ Keys(graph) = visited
    /\ visited = {expanded[i][1] : i \in 1..Len(expanded)}
    /\ \A i \in 1..Len(expanded) :
          /\ expanded[i] \in popped
          /\ expanded[i][2] <= config.max_depth
          /\ PathOfLen(start, expanded[i][1], expanded[i][2])
    /\ \A p \in AllNames :
          (\A e \in popped : e[1] = p => e[2] > config.max_depth) => p \notin Keys(graph)

\* a package was popped beyond the bound only, and the run has returned
DepthBoundedWitness ==
    /\ Done
    /\ Len(graph) >= 2
    /\ \E e \in popped :
          /\ e[2] > config.max_depth
          /\ \A f \in popped : f[1] = e[1] => f[2] > config.max_depth

\* C4: every package reachable from start by a path of at most bound edges
\* is a key of the returned mapping.
AllWithinBoundRecorded ==
    Done => \A p \in AllNames : PathWithin(start, p, config.max_depth) => p \in Keys(graph)

\* the recursive depth-first walk: dependencies left to right, visited
\* packages and packages beyond the bound skipped
RECURSIVE Walk(_, _, _), WalkDeps(_, _, _, _)
Walk(node, depth, g) ==
    IF node \in Keys(g) \/ depth > config.max_depth
    THEN g
    ELSE WalkDeps(SourceDeps(node), 1, depth + 1, Append(g, <<node, SourceDeps(node)>>))

WalkDeps(deps, i, depth, g) ==
    IF i > Len(deps) THEN g ELSE WalkDeps(deps, i + 1, depth, Walk(deps[i], depth, g))

\* C5: the returned mapping and the order of its keys are those of the
\* recursive depth-first walk.
DfsOrder == Done => graph = Walk(start, 0, <<>>)

\* A -> [B, C] was expanded in the order A, B, C
DfsOrderWitness ==
    /\ Done
    /\ start = "A"
    /\ SourceDeps("A") = <<"B", "C">>
    /\ KeyOrder(graph) = <<"A", "B", "C">>

\* C6: for every bound >= 0 the start package is a key mapped to the source's
\* sequence for it; an unknown start name yields the one-key mapping to <<>>.
StartIncluded ==
    Done =>
        /\ start \in Keys(graph)
        /\ Get(graph, start, <<"none">>) = SourceDeps(start)
        /\ start \notin DOMAIN SourceEntries => graph = <<<<start, <<>>>>>>

\* the run for a start name the source has no entry for has returned
StartIncludedWitness ==
    /\ Done
    /\ start \notin DOMAIN SourceEntries
    /\ DOMAIN SourceEntries # {}

\* the longest dependency sequence the source returns for any package
MaxBranching ==
    LET lens == {Len(SourceDeps(p)) : p \in AllNames}
    IN  CHOOSE m \in lens : \A n \in lens : n <= m

\* C9 as stated: the stack never holds more than bound * max branching entries.
StackWithinBoundTimesBranching == Len(stack) <= config.max_depth * MaxBranching

\* C9 amended: the stack never holds more than (bound + 1) * max branching
\* entries, or the one seed entry.
StackBound == Len(stack) <= Max(1, (config.max_depth + 1) * MaxBranching)

\* an expansion filled the stack to (bound + 1) * max branching entries
StackBoundWitness ==
    /\ expanded # <<>>
    /\ MaxBranching >= 2
    /\ config.max_depth >= 1
    /\ Len(stack) > config.max_depth * MaxBranching

\* C10: every key of build_graph(start, bound = k) is a key of
\* build_graph(start, bound = k + 1).
MonotoneInBound ==
    Done =>
        Keys(graph) \subseteq
            Keys(build_graph(start, [config EXCEPT !.max_depth = @ + 1]))

\* position of a key in a dict's item list
Pos(d, k) == CHOOSE i \in 1..Len(d) : d[i][1] = k

\* C7: pkg occurs in rev[dep] exactly as often as dep occurs in full[pkg], rev
\* has no key that is not a dependency of some package, and the dependents of
\* each rev[dep] stand in the order the forward edges are met.
ReverseBijection ==
    (rpc = "done" /\ config.test_mode) =>
        /\ \A pkg, dep \in Packages :
              Count(pkg, Get(rev, dep, <<>>)) = Count(dep, Get(full, pkg, <<>>))
        /\ \A i, j \in 1..Len(rev) : rev[i][1] = rev[j][1] => i = j
        /\ \A i \in 1..Len(rev) :
              /\ \E k \in 1..Len(full) : rev[i][1] \in Range(full[k][2])
              /\ Range(rev[i][2]) \subseteq Keys(full)
              /\ \A a, b \in 1..Len(rev[i][2]) :
                    a < b => Pos(full, rev[i][2][a]) <= Pos(full, rev[i][2][b])

\* two packages list the same dependency, one of them twice, and rev is returned
ReverseBijectionWitness ==
    /\ rpc = "done"
    /\ \E i \in 1..Len(rev) :
          /\ Len(rev[i][2]) >= 3
          /\ Cardinality(Range(rev[i][2])) = 2
    /\ Len(rev) >= 2

\* the items of a mapping as the list of its <<pkg, dep>> pairs, in order
RECURSIVE PairsOf(_)
PairsOf(d) ==
    IF d = <<>> THEN <<>>
    ELSE PairsOf(SubSeq(d, 1, Len(d) - 1))
         \o [j \in 1..Len(d[Len(d)][2]) |-> <<d[Len(d)][1], d[Len(d)][2][j]>>]

\* a list without its repetitions, first occurrences kept
RECURSIVE FirstSeen(_)
FirstSeen(s) ==
    IF s = <<>> THEN <<>>
    ELSE LET r == FirstSeen(SubSeq(s, 1, Len(s) - 1))
         IN  IF s[Len(s)] \in Range(r) THEN r ELSE Append(r, s[Len(s)])

\* C8: generate_mermaid emits the header and exactly one line per distinct
\* ordered pair (pkg, dep), in first-seen order: a pair seen twice yields one
\* line and two different pairs yield two lines.
OneLinePerPair ==
    mpc = "done" =>
        LET pairs == FirstSeen(PairsOf(mgraph))
            want  == <<Header>> \o
                     [i \in 1..Len(pairs) |-> LineText(EdgeText(pairs[i][1], pairs[i][2]))]
        IN  /\ Len(lines) = 1 + Cardinality(Range(PairsOf(mgraph)))
            /\ lines = want
            /\ text = Join(want)

====
